---- MODULE Spec2Model ----
(***************************************************************************)
(* Model of AzureProvider::post (crates/goose/src/providers/azure.rs):     *)
(* the authenticated send-and-retry loop.  One call of post is a process   *)
(* whose program counter stops at the await points of the async fn:        *)
(*   "start"  post has been invoked, nothing executed yet                  *)
(*   "token"  awaiting self.auth.get_token()                               *)
(*   "send"   awaiting request_builder.json(..).send() and the response    *)
(*            classification handle_response_openai_compat(..)             *)
(*   "sleep"  awaiting tokio::time::sleep(delay)                           *)
(*   "done"   post has returned                                            *)
(*   "dropped" the future of the call was dropped at an await point        *)
(* attempts, last_error, current_delay, auth_token and base_url are the    *)
(* locals of the call, config holds the fields of the provider (self),     *)
(* result is what post returned and completion what complete returned; the *)
(* other variables record what the call did (history variables).           *)
(***************************************************************************)
EXTENDS Integers, Sequences, FiniteSets, TLC

VARIABLES pc, attempts, last_error, current_delay, auth_token, result,
          hist, sched, sends, fetches, sleeps, used,
          config, cancelled, base_url, headers, completion, parsed

vars == <<pc, attempts, last_error, current_delay, auth_token, result,
          hist, sched, sends, fetches, sleeps, used,
          config, cancelled, base_url, headers, completion, parsed>>

(* ---------------- program constants (azure.rs:25-28) ------------------- *)
DEFAULT_MAX_RETRIES == 5
DEFAULT_INITIAL_RETRY_INTERVAL_MS == 1000
DEFAULT_MAX_RETRY_INTERVAL_MS == 32000
DEFAULT_BACKOFF_MULTIPLIER == 2

(* ---------------- bounds of the model ---------------------------------- *)
\* server hints "Try again in N seconds" are drawn from 0..MaxHint, plus one
\* hint just above the 32 s cap
MaxHint == 1
\* the path of a configured endpoint has at most MaxPathLen characters
MaxPathLen == 3

Min(a, b) == IF a < b THEN a ELSE b

(* ---------------- text: characters, lower-casing, search, split -------- *)
\* A string is a sequence of one-character strings (ASCII only: for
\* non-ASCII text to_lowercase may change byte offsets, which is not modelled).
UpperCase == <<"A","B","C","D","E","F","G","H","I","J","K","L","M",
               "N","O","P","Q","R","S","T","U","V","W","X","Y","Z">>
LowerCase == <<"a","b","c","d","e","f","g","h","i","j","k","l","m",
               "n","o","p","q","r","s","t","u","v","w","x","y","z">>
DigitChars == <<"0","1","2","3","4","5","6","7","8","9">>

Lower(ch) ==
    IF \E i \in 1..26 : UpperCase[i] = ch
    THEN LowerCase[CHOOSE i \in 1..26 : UpperCase[i] = ch]
    ELSE ch

\* str::to_lowercase
ToLowercase(s) == [i \in 1..Len(s) |-> Lower(s[i])]

\* str::find: 1-based index of the first occurrence of pat in s, 0 for None
Find(s, pat) ==
    LET idx == {i \in 1..(Len(s) - Len(pat) + 1) :
                    SubSeq(s, i, i + Len(pat) - 1) = pat}
    IN  IF idx = {} THEN 0 ELSE CHOOSE i \in idx : \A j \in idx : i <= j

IsSpace(ch) == ch = " "

\* str::split_whitespace: the maximal runs of non-whitespace characters
RECURSIVE SplitFrom(_, _, _)
SplitFrom(s, i, cur) ==
    IF i > Len(s)
    THEN IF cur = <<>> THEN <<>> ELSE <<cur>>
    ELSE IF IsSpace(s[i])
         THEN IF cur = <<>> THEN SplitFrom(s, i + 1, <<>>)
                            ELSE <<cur>> \o SplitFrom(s, i + 1, <<>>)
         ELSE SplitFrom(s, i + 1, Append(cur, s[i]))

SplitWhitespace(s) == SplitFrom(s, 1, <<>>)

\* Iterator::nth (0-based); the empty word stands for None
Nth(words, n) == IF Len(words) > n THEN words[n + 1] ELSE <<>>

IsDigit(ch) == \E d \in 1..10 : DigitChars[d] = ch
DigitVal(ch) == (CHOOSE d \in 1..10 : DigitChars[d] = ch) - 1

RECURSIVE DigitsValue(_)
DigitsValue(w) ==
    IF w = <<>> THEN 0
    ELSE 10 * DigitsValue(SubSeq(w, 1, Len(w) - 1)) + DigitVal(w[Len(w)])

\* str::parse::<u64>: an optional '+' followed by one or more decimal digits;
\* -1 stands for Err (values beyond u64 do not occur within the bounds)
ParseU64(w) ==
    LET body == IF w # <<>> /\ w[1] = "+" THEN SubSeq(w, 2, Len(w)) ELSE w
    IN  IF body # <<>> /\ \A i \in 1..Len(body) : IsDigit(body[i])
        THEN DigitsValue(body)
        ELSE -1

\* format!("{}", n) for an unsigned integer
RECURSIVE Decimal(_)
Decimal(n) ==
    IF n < 10 THEN <<DigitChars[n + 1]>>
    ELSE Decimal(n \div 10) \o <<DigitChars[(n % 10) + 1]>>

(* ---------------- rate-limit messages of the endpoint ------------------ *)
\* A message is kept in the state as [tpl, n]; MsgText is its text, which is
\* what the code parses.
RateLimitText == <<"R","a","t","e"," ","l","i","m","i","t"," ","i","s"," ","e","x","c","e","e","d","e","d",".">>
TryAgainText == <<" ","T","r","y"," ","a","g","a","i","n"," ","i","n"," ">>
SecondsText == <<" ","s","e","c","o","n","d","s",".">>
TryAgainPattern == <<"t","r","y"," ","a","g","a","i","n"," ","i","n"," ">>

NoHintMsg == [tpl |-> "rate_limit", n |-> 0]
HintMsg(n) == [tpl |-> "try_again_in", n |-> n]

MsgText(m) ==
    IF m.tpl = "try_again_in"
    THEN RateLimitText \o TryAgainText \o Decimal(m.n) \o SecondsText
    ELSE RateLimitText

\* a hint above the backoff cap, in seconds
AboveCapHint == (DEFAULT_MAX_RETRY_INTERVAL_MS \div 1000) + 1

HintSecs == (0..MaxHint) \cup {AboveCapHint}
RateLimitMsgs == {NoHintMsg} \cup {HintMsg(n) : n \in HintSecs}
\* messages used when two calls run concurrently
PairMsgs == {HintMsg(AboveCapHint)}


(* ---------------- the request URL (azure.rs:87-105) -------------------- *)
\* Endpoints are "https://h" followed by a path over the characters "/" and
\* "a"; an endpoint without a scheme stands for the texts Url::parse rejects.
\* Queries, fragments, dot segments and characters that set_path or set_query
\* would percent-encode are outside the endpoints modelled.
SchemeText == <<"h","t","t","p","s",":","/","/">>
HostText == <<"h">>
OpenAiPrefix == <<"/","o","p","e","n","a","i","/","d","e","p","l","o","y","m","e","n","t","s","/">>
ChatCompletions == <<"/","c","h","a","t","/","c","o","m","p","l","e","t","i","o","n","s">>
ApiVersionKey == <<"a","p","i","-","v","e","r","s","i","o","n","=">>

IsPrefix(p, s) == Len(p) <= Len(s) /\ SubSeq(s, 1, Len(p)) = p

\* url::Url::parse for an https URL: the host runs to the first "/", the
\* rest is the path, and an empty path is "/"; ok = FALSE for a parse error
UrlParse(text) ==
    IF ~IsPrefix(SchemeText, text) \/ Len(text) = Len(SchemeText)
    THEN [ok |-> FALSE, origin |-> <<>>, path |-> <<>>, query |-> <<>>]
    ELSE LET rest == SubSeq(text, Len(SchemeText) + 1, Len(text))
             slash == Find(rest, <<"/">>)
             host == IF slash = 0 THEN rest ELSE SubSeq(rest, 1, slash - 1)
             path == IF slash = 0 THEN <<"/">> ELSE SubSeq(rest, slash, Len(rest))
         IN  IF host = <<>>
             THEN [ok |-> FALSE, origin |-> <<>>, path |-> <<>>, query |-> <<>>]
             ELSE [ok |-> TRUE, origin |-> SchemeText \o host, path |-> path,
                   query |-> <<>>]

\* only one trailing slash removed
TrimEndSlashes_One(s) ==
    IF s # <<>> /\ s[Len(s)] = "/" THEN SubSeq(s, 1, Len(s) - 1) ELSE s

\* str::trim_end_matches('/')
RECURSIVE TrimEndSlashes(_)
TrimEndSlashes(s) ==
    IF s # <<>> /\ s[Len(s)] = "/"
    THEN TrimEndSlashes(SubSeq(s, 1, Len(s) - 1))
    ELSE s

\* azure.rs:91-102
NewPath(existing_path, deployment_name) ==
    IF existing_path = <<>>
    THEN OpenAiPrefix \o deployment_name \o ChatCompletions
    ELSE existing_path \o OpenAiPrefix \o deployment_name \o ChatCompletions

\* azure.rs:87-105: the URL post sends to, for a parsed base URL
BuildUrl(base, deployment_name, api_version) ==
    [ok |-> TRUE,
     origin |-> base.origin,
     path |-> NewPath(TrimEndSlashes(base.path), deployment_name),
     query |-> ApiVersionKey \o api_version]

\* Url as text (Display)
UrlText(u) == u.origin \o u.path \o <<"?">> \o u.query

RECURSIVE PathsOfLen(_)
PathsOfLen(n) ==
    IF n = 0 THEN {<<>>}
    ELSE IF n = 1 THEN {<<"/">>}
    ELSE {Append(q, ch) : q \in PathsOfLen(n - 1), ch \in {"/", "a"}}

Paths == UNION {PathsOfLen(n) : n \in 0..MaxPathLen}
ValidEndpoints == {SchemeText \o HostText \o q : q \in Paths}
\* a text without a scheme: Url::parse fails (RelativeUrlWithoutBase)
InvalidEndpoint == HostText \o <<"/", "a">>
Deployments == {<<"d">>, <<"g", "4">>}
ApiVersions == {<<"1">>, <<"2", "0">>}
Credentials == {"ApiKey", "DefaultCredential"}

(* ---------------- errors ----------------------------------------------- *)
Error(kind, tpl, n) == [kind |-> kind, msg |-> [tpl |-> tpl, n |-> n]]
NoError == Error("None", "", 0)
RateLimitExceeded(m) == [kind |-> "RateLimitExceeded", msg |-> m]
\* azure.rs:114-119
ExceededError == Error("RateLimitExceeded", "exceeded_maximum_retry_attempts",
                       DEFAULT_MAX_RETRIES)
\* azure.rs:123-126
TokenError == Error("RequestFailed", "failed_to_get_authentication_token", 0)
\* azure.rs:299
RequestFailedError == Error("RequestFailed", "request_failed", 0)
\* the reqwest timeout error seen at azure.rs:283 (never turned into a
\* ProviderError by the code)
TimeoutSeen == Error("Timeout", "timeout", 0)
\* the ProviderError variants other than RateLimitExceeded that
\* handle_response_openai_compat can return (azure.rs:260)
HttpErrorKinds == {"Authentication", "ContextLengthExceeded", "ServerError",
                   "RequestFailed"}
HttpError(k) == Error(k, "upstream", 0)

\* azure.rs:88
InvalidUrlError == Error("RequestFailed", "invalid_base_url", 0)
\* the errors of the collaborators of complete (azure.rs:343, 348, 356)
CreateRequestError == Error("RequestFailed", "create_request", 0)
MessageError == Error("RequestFailed", "response_to_message", 0)
UsageOtherError == Error("RequestFailed", "get_usage", 0)

\* what post returns; the body of the response to the n-th send is n
Pending == [status |-> "pending", err |-> NoError, body |-> 0]
Ok(b) == [status |-> "Ok", err |-> NoError, body |-> b]
Err(e) == [status |-> "Err", err |-> e, body |-> 0]

\* what complete returns: the message parsed from a body and a usage record
NotCompleted == [status |-> "pending", err |-> NoError, message |-> 0,
                 usage |-> "none"]
CompleteOk(b, u) == [status |-> "Ok", err |-> NoError, message |-> b, usage |-> u]
CompleteErr(e) == [status |-> "Err", err |-> e, message |-> 0, usage |-> "none"]

\* outcomes of response_to_message and of get_usage on a response
MessageOutcomes == {"ok", "error"}
UsageOutcomes == {"ok", "usage_error", "other_error"}
NotParsed == [message |-> "none", usage |-> "none"]

NoUrl == [ok |-> FALSE, origin |-> <<>>, path |-> <<>>, query |-> <<>>]

NoToken == [fetch |-> 0, sleeps |-> 0]

(* ---------------- the retry policy of post ------------------------------ *)
\* the loop check never stops the call
RetriesExhausted_Never(a) == FALSE

\* the loop check with the bound off by one
RetriesExhausted_OffByOne(a) == a > 0 /\ a > DEFAULT_MAX_RETRIES + 1

\* azure.rs:113
RetriesExhausted(a) == a > 0 /\ a > DEFAULT_MAX_RETRIES

\* azure.rs:119
ExhaustedResult(le) == IF le # NoError THEN Err(le) ELSE Err(ExceededError)

\* azure.rs:223-231, on the text of the message
RetryAfter(text) ==
    LET secs == Find(ToLowercase(text), TryAgainPattern)
    IN  IF secs # 0
        THEN LET v == ParseU64(Nth(SplitWhitespace(
                                   SubSeq(text, secs, Len(text))), 3))
             IN  IF v < 0 THEN 0 ELSE v
        ELSE 0

\* retry_after for each message of the endpoint, computed once from its text
RetryAfterOf == [m \in RateLimitMsgs |-> RetryAfter(MsgText(m))]

\* azure.rs:240 and 285
BackoffDelay(cd) == Min(cd, DEFAULT_MAX_RETRY_INTERVAL_MS)

\* current_delay clamped to the cap when it is advanced
NextDelay_Clamped(cd) ==
    Min(cd * DEFAULT_BACKOFF_MULTIPLIER, DEFAULT_MAX_RETRY_INTERVAL_MS)

\* the delay grown by a fixed step instead of the multiplier
NextDelay_Linear(cd) == cd + DEFAULT_INITIAL_RETRY_INTERVAL_MS

\* azure.rs:241 and 286; the f64 product is exact for the values reached
\* (at most 1000 * 2^6)
NextDelay(cd) == cd * DEFAULT_BACKOFF_MULTIPLIER

\* a server hint also advances the exponential counter
RateLimitDelay_HintAdvances(retry_after, cd) ==
    IF retry_after > 0
    THEN [ms |-> retry_after * 1000, hinted |-> TRUE, next |-> NextDelay(cd)]
    ELSE [ms |-> BackoffDelay(cd), hinted |-> FALSE, next |-> NextDelay(cd)]

\* azure.rs:233-248: the delay slept and the new current_delay
RateLimitDelay(retry_after, cd) ==
    IF retry_after > 0
    THEN [ms |-> retry_after * 1000, hinted |-> TRUE, next |-> cd]
    ELSE [ms |-> BackoffDelay(cd), hinted |-> FALSE, next |-> NextDelay(cd)]

\* a timeout restarts the exponential schedule
TimeoutDelay_Restarts(cd) ==
    [ms |-> BackoffDelay(cd), hinted |-> FALSE,
     next |-> DEFAULT_INITIAL_RETRY_INTERVAL_MS]

\* azure.rs:285-286
TimeoutDelay(cd) ==
    [ms |-> BackoffDelay(cd), hinted |-> FALSE, next |-> NextDelay(cd)]

\* the token of the first fetch kept for the whole call
AuthToken_Cached(held, n, s) ==
    IF held.fetch # 0 THEN held ELSE [fetch |-> n, sleeps |-> s]

\* azure.rs:123 and 129: the token a fetch returns, tagged with the number
\* of the fetch and the number of sleeps completed when it was made
AuthToken(held, n, s) == [fetch |-> n, sleeps |-> s]

\* the bearer header used for every credential type
RequestHeaders_AlwaysBearer(credential, token) ==
    {[name |-> "Authorization", prefix |-> "Bearer ", token |-> token]}

\* azure.rs:132-144: the authentication header of a request
RequestHeaders(credential, token) ==
    IF credential = "ApiKey"
    THEN {[name |-> "api-key", prefix |-> "", token |-> token]}
    ELSE {[name |-> "Authorization", prefix |-> "Bearer ", token |-> token]}

\* a usage error makes complete fail
CompleteTail_UsageFails(body, mo, uo) ==
    IF mo = "error" THEN CompleteErr(MessageError)
    ELSE IF uo = "ok" THEN CompleteOk(body, "reported")
    ELSE CompleteErr(UsageOtherError)

\* azure.rs:348-362: what complete returns for the body post returned, given
\* the outcomes of response_to_message and get_usage
CompleteTail(body, mo, uo) ==
    IF mo = "error" THEN CompleteErr(MessageError)
    ELSE CASE uo = "ok" -> CompleteOk(body, "reported")
           [] uo = "usage_error" -> CompleteOk(body, "default")
           [] OTHER -> CompleteErr(UsageOtherError)

(* ---------------- state ------------------------------------------------- *)
Calls == {"A", "B"}
Running == DOMAIN pc

Config(e, d, v, k) ==
    [endpoint |-> e, deployment_name |-> d, api_version |-> v, credential |-> k]

\* the providers of the retry-loop specification: a valid and an invalid
\* endpoint, both credential types
LoopConfigs ==
    {Config(e, <<"d">>, <<"1">>, k) :
        e \in {SchemeText \o HostText \o <<"/", "a", "/">>, InvalidEndpoint},
        k \in Credentials}
\* the provider shared by two concurrent calls
PairConfigs ==
    {Config(SchemeText \o HostText \o <<"/", "a", "/">>, <<"d">>, <<"1">>, "ApiKey")}
\* the providers of the URL-building specification
UrlConfigs ==
    {Config(e, d, v, k) :
        e \in ValidEndpoints \cup {InvalidEndpoint},
        d \in Deployments, v \in ApiVersions, k \in Credentials}

InitFor(S, Cs) ==
    /\ config \in Cs
    /\ cancelled = [c \in S |-> FALSE]
    /\ base_url = [c \in S |-> NoUrl]
    /\ headers = [c \in S |-> <<>>]
    /\ completion = [c \in S |-> NotCompleted]
    /\ parsed = [c \in S |-> NotParsed]
    /\ pc = [c \in S |-> "start"]
    /\ attempts = [c \in S |-> 0]
    /\ last_error = [c \in S |-> NoError]
    /\ current_delay = [c \in S |-> DEFAULT_INITIAL_RETRY_INTERVAL_MS]
    /\ auth_token = [c \in S |-> NoToken]
    /\ result = [c \in S |-> Pending]
    /\ hist = [c \in S |-> <<>>]
    /\ sched = [c \in S |-> <<>>]
    /\ sends = [c \in S |-> 0]
    /\ fetches = [c \in S |-> 0]
    /\ sleeps = [c \in S |-> 0]
    /\ used = [c \in S |-> <<>>]

\* one call of post
Init == InitFor({"A"}, LoopConfigs)
\* two concurrent calls of post
InitPair == InitFor(Calls, PairConfigs)
\* one call, every endpoint, deployment and version of the bounds
InitUrl == InitFor({"A"}, UrlConfigs)

Seen(class, e) == [class |-> class, err |-> e]

(* ---------------- actions ----------------------------------------------- *)
\* azure.rs:343: create_request fails and complete returns without calling
\* post
CreateRequestFail(c) ==
    /\ pc[c] = "start"
    /\ completion' = [completion EXCEPT ![c] = CompleteErr(CreateRequestError)]
    /\ pc' = [pc EXCEPT ![c] = "done"]
    /\ UNCHANGED <<attempts, last_error, current_delay, auth_token, result,
                   hist, sched, sends, fetches, sleeps, used,
                   config, cancelled, base_url, headers, parsed>>

\* azure.rs:87-88: the endpoint does not parse, post returns the error
StartInvalidUrl(c) ==
    /\ pc[c] = "start"
    /\ ~UrlParse(config.endpoint).ok
    /\ result' = [result EXCEPT ![c] = Err(InvalidUrlError)]
    /\ completion' = [completion EXCEPT ![c] = CompleteErr(InvalidUrlError)]
    /\ pc' = [pc EXCEPT ![c] = "done"]
    /\ UNCHANGED <<attempts, last_error, current_delay, auth_token,
                   hist, sched, sends, fetches, sleeps, used,
                   config, cancelled, base_url, headers, parsed>>

\* azure.rs:343-345 and 87-123: the payload and the URL are built, the locals
\* are initialised, the first loop check passes (attempts = 0) and get_token
\* is called
Start(c) ==
    /\ pc[c] = "start"
    /\ UrlParse(config.endpoint).ok
    /\ base_url' = [base_url EXCEPT
                      ![c] = BuildUrl(UrlParse(config.endpoint),
                                      config.deployment_name, config.api_version)]
    /\ attempts' = [attempts EXCEPT ![c] = 0]
    /\ last_error' = [last_error EXCEPT ![c] = NoError]
    /\ current_delay' = [current_delay EXCEPT ![c] = DEFAULT_INITIAL_RETRY_INTERVAL_MS]
    /\ pc' = [pc EXCEPT ![c] = "token"]
    /\ UNCHANGED <<auth_token, result, hist, sched, sends, fetches, sleeps, used,
                   config, cancelled, headers, completion, parsed>>

\* azure.rs:123-182: the token arrives, the request is built and sent
TokenOk(c) ==
    /\ pc[c] = "token"
    /\ fetches' = [fetches EXCEPT ![c] = @ + 1]
    /\ auth_token' = [auth_token EXCEPT
                        ![c] = AuthToken(@, fetches[c] + 1, sleeps[c])]
    /\ sends' = [sends EXCEPT ![c] = @ + 1]
    /\ used' = [used EXCEPT ![c] = Append(@, auth_token'[c])]
    /\ headers' = [headers EXCEPT
                     ![c] = Append(@, RequestHeaders(config.credential,
                                                     auth_token'[c]))]
    /\ pc' = [pc EXCEPT ![c] = "send"]
    /\ UNCHANGED <<attempts, last_error, current_delay, result, hist, sched, sleeps,
                   config, cancelled, base_url, completion, parsed>>

\* a token failure handled like a retryable failure
TokenFail_Retries(c) ==
    /\ pc[c] = "token"
    /\ fetches' = [fetches EXCEPT ![c] = @ + 1]
    /\ attempts' = [attempts EXCEPT ![c] = @ + 1]
    /\ pc' = [pc EXCEPT ![c] = "sleep"]
    /\ UNCHANGED <<last_error, current_delay, auth_token, result, hist,
                   sched, sends, sleeps, used,
                   config, cancelled, base_url, headers, completion, parsed>>

\* azure.rs:123-126: get_token fails, `?` returns the error
TokenFail(c) ==
    /\ pc[c] = "token"
    /\ fetches' = [fetches EXCEPT ![c] = @ + 1]
    /\ result' = [result EXCEPT ![c] = Err(TokenError)]
    /\ completion' = [completion EXCEPT ![c] = CompleteErr(TokenError)]
    /\ pc' = [pc EXCEPT ![c] = "done"]
    /\ UNCHANGED <<attempts, last_error, current_delay, auth_token, hist,
                   sched, sends, sleeps, used,
                   config, cancelled, base_url, headers, parsed>>

\* a success after recorded failures returns the recorded error
ResponseOk_ReturnsLastError(c, mo, uo) ==
    /\ pc[c] = "send"
    /\ hist' = [hist EXCEPT ![c] = Append(@, Seen("ok", NoError))]
    /\ result' = [result EXCEPT
                    ![c] = IF last_error[c] # NoError THEN Err(last_error[c])
                           ELSE Ok(sends[c])]
    /\ parsed' = [parsed EXCEPT
                    ![c] = [message |-> mo,
                            usage |-> IF mo = "ok" THEN uo ELSE "none"]]
    /\ completion' = [completion EXCEPT
                        ![c] = IF last_error[c] # NoError
                               THEN CompleteErr(last_error[c])
                               ELSE CompleteTail(sends[c], mo, uo)]
    /\ pc' = [pc EXCEPT ![c] = "done"]
    /\ UNCHANGED <<attempts, last_error, current_delay, auth_token, sched,
                   sends, fetches, sleeps, used,
                   config, cancelled, base_url, headers>>

\* azure.rs:204-211 and 345-362: post returns the body; complete parses the
\* message (outcome mo) and the usage (outcome uo) and returns
ResponseOk(c, mo, uo) ==
    /\ pc[c] = "send"
    /\ hist' = [hist EXCEPT ![c] = Append(@, Seen("ok", NoError))]
    /\ result' = [result EXCEPT ![c] = Ok(sends[c])]
    /\ parsed' = [parsed EXCEPT
                    ![c] = [message |-> mo,
                            usage |-> IF mo = "ok" THEN uo ELSE "none"]]
    /\ completion' = [completion EXCEPT ![c] = CompleteTail(sends[c], mo, uo)]
    /\ pc' = [pc EXCEPT ![c] = "done"]
    /\ UNCHANGED <<attempts, last_error, current_delay, auth_token, sched,
                   sends, fetches, sleeps, used,
                   config, cancelled, base_url, headers>>

\* azure.rs:212-257: a rate-limit response with message m
RateLimited(c, m) ==
    /\ pc[c] = "send"
    /\ LET d == RateLimitDelay(RetryAfterOf[m], current_delay[c])
       IN  /\ attempts' = [attempts EXCEPT ![c] = @ + 1]
           /\ last_error' = [last_error EXCEPT ![c] = RateLimitExceeded(m)]
           /\ current_delay' = [current_delay EXCEPT ![c] = d.next]
           /\ sched' = [sched EXCEPT
                          ![c] = Append(@, [ms |-> d.ms, hinted |-> d.hinted])]
    /\ hist' = [hist EXCEPT
                  ![c] = Append(@, Seen("rate_limit", RateLimitExceeded(m)))]
    /\ pc' = [pc EXCEPT ![c] = "sleep"]
    /\ UNCHANGED <<auth_token, result, sends, fetches, sleeps, used,
                   config, cancelled, base_url, headers, completion, parsed>>

\* azure.rs:260-269: any other error of handle_response_openai_compat
ResponseError(c, k) ==
    /\ pc[c] = "send"
    /\ hist' = [hist EXCEPT ![c] = Append(@, Seen("http_error", HttpError(k)))]
    /\ result' = [result EXCEPT ![c] = Err(HttpError(k))]
    /\ completion' = [completion EXCEPT ![c] = CompleteErr(HttpError(k))]
    /\ pc' = [pc EXCEPT ![c] = "done"]
    /\ UNCHANGED <<attempts, last_error, current_delay, auth_token, sched,
                   sends, fetches, sleeps, used,
                   config, cancelled, base_url, headers, parsed>>

\* current_delay kept in one place shared by all running calls
Timeout_SharedDelay(c) ==
    /\ pc[c] = "send"
    /\ LET d == TimeoutDelay(current_delay[c])
       IN  /\ attempts' = [attempts EXCEPT ![c] = @ + 1]
           /\ current_delay' = [x \in Running |-> d.next]
           /\ sched' = [sched EXCEPT
                          ![c] = Append(@, [ms |-> d.ms, hinted |-> d.hinted])]
    /\ hist' = [hist EXCEPT ![c] = Append(@, Seen("timeout", TimeoutSeen))]
    /\ pc' = [pc EXCEPT ![c] = "sleep"]
    /\ UNCHANGED <<last_error, auth_token, result, sends, fetches, sleeps, used,
                   config, cancelled, base_url, headers, completion, parsed>>

\* azure.rs:283-295: send fails with a timeout
Timeout(c) ==
    /\ pc[c] = "send"
    /\ LET d == TimeoutDelay(current_delay[c])
       IN  /\ attempts' = [attempts EXCEPT ![c] = @ + 1]
           /\ current_delay' = [current_delay EXCEPT ![c] = d.next]
           /\ sched' = [sched EXCEPT
                          ![c] = Append(@, [ms |-> d.ms, hinted |-> d.hinted])]
    /\ hist' = [hist EXCEPT ![c] = Append(@, Seen("timeout", TimeoutSeen))]
    /\ pc' = [pc EXCEPT ![c] = "sleep"]
    /\ UNCHANGED <<last_error, auth_token, result, sends, fetches, sleeps, used,
                   config, cancelled, base_url, headers, completion, parsed>>

\* every transport failure retried like a timeout
SendFailed_Retries(c) ==
    /\ pc[c] = "send"
    /\ LET d == TimeoutDelay(current_delay[c])
       IN  /\ attempts' = [attempts EXCEPT ![c] = @ + 1]
           /\ current_delay' = [current_delay EXCEPT ![c] = d.next]
           /\ sched' = [sched EXCEPT
                          ![c] = Append(@, [ms |-> d.ms, hinted |-> d.hinted])]
    /\ hist' = [hist EXCEPT ![c] = Append(@, Seen("transport", RequestFailedError))]
    /\ pc' = [pc EXCEPT ![c] = "sleep"]
    /\ UNCHANGED <<last_error, auth_token, result, sends, fetches, sleeps, used,
                   config, cancelled, base_url, headers, completion, parsed>>

\* azure.rs:272-299: send fails and the error is not a timeout
SendFailed(c) ==
    /\ pc[c] = "send"
    /\ hist' = [hist EXCEPT ![c] = Append(@, Seen("transport", RequestFailedError))]
    /\ result' = [result EXCEPT ![c] = Err(RequestFailedError)]
    /\ completion' = [completion EXCEPT ![c] = CompleteErr(RequestFailedError)]
    /\ pc' = [pc EXCEPT ![c] = "done"]
    /\ UNCHANGED <<attempts, last_error, current_delay, auth_token, sched,
                   sends, fetches, sleeps, used,
                   config, cancelled, base_url, headers, parsed>>

\* Retry with the counter re-initialised in every iteration
Retry_ResetsAttempts(c) ==
    /\ pc[c] = "sleep"
    /\ ~RetriesExhausted(attempts[c])
    /\ sleeps' = [sleeps EXCEPT ![c] = @ + 1]
    /\ attempts' = [attempts EXCEPT ![c] = 0]
    /\ pc' = [pc EXCEPT ![c] = "token"]
    /\ UNCHANGED <<last_error, current_delay, auth_token, result,
                   hist, sched, sends, fetches, used,
                   config, cancelled, base_url, headers, completion, parsed>>

\* azure.rs:257-258 / 295-296, then 111-123: the sleep ends, the loop check
\* passes and get_token is called again
Retry(c) ==
    /\ pc[c] = "sleep"
    /\ ~RetriesExhausted(attempts[c])
    /\ sleeps' = [sleeps EXCEPT ![c] = @ + 1]
    /\ pc' = [pc EXCEPT ![c] = "token"]
    /\ UNCHANGED <<attempts, last_error, current_delay, auth_token, result,
                   hist, sched, sends, fetches, used,
                   config, cancelled, base_url, headers, completion, parsed>>

\* azure.rs:257-258 / 295-296, then 111-120: the sleep ends and the loop
\* check returns the error
GiveUp(c) ==
    /\ pc[c] = "sleep"
    /\ RetriesExhausted(attempts[c])
    /\ sleeps' = [sleeps EXCEPT ![c] = @ + 1]
    /\ result' = [result EXCEPT ![c] = ExhaustedResult(last_error[c])]
    /\ completion' = [completion EXCEPT
                        ![c] = CompleteErr(ExhaustedResult(last_error[c]).err)]
    /\ pc' = [pc EXCEPT ![c] = "done"]
    /\ UNCHANGED <<attempts, last_error, current_delay, auth_token, hist,
                   sched, sends, fetches, used,
                   config, cancelled, base_url, headers, parsed>>

\* the task goes on although the caller dropped the call
Cancel_Detached(c) ==
    /\ pc[c] \in {"token", "send", "sleep"}
    /\ ~cancelled[c]
    /\ cancelled' = [cancelled EXCEPT ![c] = TRUE]
    /\ UNCHANGED <<pc, attempts, last_error, current_delay, auth_token, result,
                   hist, sched, sends, fetches, sleeps, used,
                   config, base_url, headers, completion, parsed>>

\* the caller drops the future of the call while it is suspended at an await
\* (azure.rs:123, 182-203, 257, 295): nothing of the call runs afterwards
Cancel(c) ==
    /\ pc[c] \in {"token", "send", "sleep"}
    /\ ~cancelled[c]
    /\ cancelled' = [cancelled EXCEPT ![c] = TRUE]
    /\ pc' = [pc EXCEPT ![c] = "dropped"]
    /\ UNCHANGED <<attempts, last_error, current_delay, auth_token, result,
                   hist, sched, sends, fetches, sleeps, used,
                   config, base_url, headers, completion, parsed>>

\* the steps of a call that its caller does not drop
Run ==
    \/ \E c \in Running : CreateRequestFail(c)
    \/ \E c \in Running : StartInvalidUrl(c)
    \/ \E c \in Running : Start(c)
    \/ \E c \in Running : TokenOk(c)
    \/ \E c \in Running : TokenFail(c)
    \/ \E c \in Running : \E mo \in MessageOutcomes : \E uo \in UsageOutcomes :
           ResponseOk(c, mo, uo)
    \/ \E c \in Running : \E m \in RateLimitMsgs : RateLimited(c, m)
    \/ \E c \in Running : \E k \in HttpErrorKinds : ResponseError(c, k)
    \/ \E c \in Running : Timeout(c)
    \/ \E c \in Running : SendFailed(c)
    \/ \E c \in Running : Retry(c)
    \/ \E c \in Running : GiveUp(c)

Next ==
    \/ Run
    \/ \E c \in Running : Cancel(c)

\* the steps of two concurrent calls whose payload and URL build succeed,
\* with one rate-limit message, one HTTP error and one outcome of the parsers
NextPair ==
    \/ \E c \in Running : Start(c)
    \/ \E c \in Running : TokenOk(c)
    \/ \E c \in Running : TokenFail(c)
    \/ \E c \in Running : ResponseOk(c, "ok", "ok")
    \/ \E c \in Running : \E m \in PairMsgs : RateLimited(c, m)
    \/ \E c \in Running : ResponseError(c, "ServerError")
    \/ \E c \in Running : Timeout(c)
    \/ \E c \in Running : SendFailed(c)
    \/ \E c \in Running : Retry(c)
    \/ \E c \in Running : GiveUp(c)
    \/ \E c \in Running : Cancel(c)

\* the first step of a call only: the payload and the URL are built
NextUrl ==
    \/ \E c \in Running : CreateRequestFail(c)
    \/ \E c \in Running : StartInvalidUrl(c)
    \/ \E c \in Running : Start(c)

Spec == Init /\ [][Next]_vars
SpecPair == InitPair /\ [][NextPair]_vars
SpecUrl == InitUrl /\ [][NextUrl]_vars
\* a call that is not dropped, in which every token fetch, send and sleep
\* completes
SpecLive == Init /\ [][Run]_vars /\ WF_vars(Run)

TypeOK ==
    /\ \A c \in Running : pc[c] \in {"start", "token", "send", "sleep", "done", "dropped"}
    /\ \A c \in Running : attempts[c] \in 0..(DEFAULT_MAX_RETRIES + 1)

(* ======================= properties ===================================== *)
RetryableClasses == {"rate_limit", "timeout"}
\* number of retryable failures the call has seen
NumRetryable(h) == Cardinality({i \in 1..Len(h) : h[i].class \in RetryableClasses})
Last(q) == q[Len(q)]

\* C1 as claimed: after max_retries (5) consecutive retryable failures the
\* call returns an error and performs no further network send, i.e. a call
\* that has seen 5 retryable failures never makes a sixth send.
C1_AfterMaxRetriesFailures ==
    \A c \in Running :
        NumRetryable(hist[c]) >= DEFAULT_MAX_RETRIES =>
            /\ sends[c] <= DEFAULT_MAX_RETRIES
            /\ pc[c] \in {"sleep", "done", "dropped"}
            /\ (pc[c] = "done" => result[c].status = "Err")

\* C1 amended: after max_retries + 1 (6) consecutive retryable failures the
\* call is in its last sleep, was dropped there by its caller, or has
\* returned; what it returns is an error, and it has made exactly 6 sends
\* (no further send follows).
C1_AfterSixFailures ==
    \A c \in Running :
        NumRetryable(hist[c]) > DEFAULT_MAX_RETRIES =>
            /\ sends[c] = DEFAULT_MAX_RETRIES + 1
            /\ pc[c] \in {"sleep", "done", "dropped"}
            /\ (pc[c] = "done" => result[c].status = "Err")

C1_Witness ==
    \E c \in Running :
        /\ NumRetryable(hist[c]) = DEFAULT_MAX_RETRIES + 1
        /\ pc[c] = "done"
        /\ result[c].status = "Err"
        /\ sends[c] = DEFAULT_MAX_RETRIES + 1

\* C2: within one call the attempt counter never decreases, and the number
\* of network sends never exceeds max_retries + 1 = 6.
C2_AttemptsMonotoneSendsBounded ==
    /\ [](\A c \in Running : sends[c] <= DEFAULT_MAX_RETRIES + 1)
    /\ [][\A c \in Running : attempts'[c] >= attempts[c]]_vars

C2_Witness ==
    \E c \in Running :
        /\ sends[c] = DEFAULT_MAX_RETRIES + 1
        /\ attempts[c] = DEFAULT_MAX_RETRIES + 1

\* C3 as claimed: when a call ends because its retries are exhausted, the
\* error it returns is the last retryable error it observed (rate-limit or
\* timeout); the generic error is returned only if none was observed.
C3_ReturnsLastRetryableError ==
    \A c \in Running :
        (pc[c] = "done" /\ NumRetryable(hist[c]) > DEFAULT_MAX_RETRIES) =>
            result[c] = Err(Last(hist[c]).err)

NotHinted(e) == ~e.hinted
\* the delays of the call that did not come from a server hint, in order
Unhinted(q) == SelectSeq(q, NotHinted)
ExpectedSchedule == <<1000, 2000, 4000, 8000, 16000, 32000>>

\* C4: the successive delays scheduled after retryable failures without a
\* server hint (rate-limit without hint, or timeout, in any mix) are exactly
\* 1000, 2000, 4000, 8000, 16000, 32000 ms, none above 32000 ms.
C4_UnhintedSchedule ==
    \A c \in Running :
        LET u == Unhinted(sched[c])
        IN  /\ Len(u) <= Len(ExpectedSchedule)
            /\ \A i \in 1..Len(u) :
                   /\ u[i].ms = ExpectedSchedule[i]
                   /\ u[i].ms <= DEFAULT_MAX_RETRY_INTERVAL_MS

C4_Witness ==
    \E c \in Running :
        /\ Len(sched[c]) = Len(ExpectedSchedule)
        /\ \A i \in 1..Len(sched[c]) : sched[c][i].ms = ExpectedSchedule[i]
        /\ \E i \in 1..Len(hist[c]) : hist[c][i].class = "timeout"
        /\ \E i \in 1..Len(hist[c]) : hist[c][i].err = RateLimitExceeded(NoHintMsg)

\* the step in which call c receives the rate-limit message "... Try again
\* in n seconds."
HintedStep(c, n) ==
    /\ pc[c] = "send"
    /\ pc'[c] = "sleep"
    /\ Last(hist'[c]).err = RateLimitExceeded(HintMsg(n))

\* C5 as claimed: for every hint value N, a rate-limit error with the hint
\* "try again in N seconds" schedules a delay of exactly N seconds and leaves
\* current_delay unchanged.
C5_EveryHintVerbatim ==
    [][\A c \in Running : \A n \in HintSecs :
          HintedStep(c, n) =>
              /\ Last(sched'[c]).ms = n * 1000
              /\ current_delay'[c] = current_delay[c]]_vars

\* C5 amended: for every hint value N >= 1, a rate-limit error with the hint
\* "try again in N seconds" schedules a delay of exactly N seconds, whatever
\* current_delay is, and leaves current_delay unchanged.
C5_PositiveHintVerbatim ==
    [][\A c \in Running : \A n \in HintSecs \ {0} :
          HintedStep(c, n) =>
              /\ Last(sched'[c]).ms = n * 1000
              /\ Last(sched'[c]).hinted
              /\ current_delay'[c] = current_delay[c]]_vars

C5_Witness ==
    \E c \in Running :
        /\ pc[c] = "sleep"
        /\ Last(hist[c]).err = RateLimitExceeded(HintMsg(1))
        /\ Last(sched[c]).ms = 1000
        /\ current_delay[c] = 4 * DEFAULT_INITIAL_RETRY_INTERVAL_MS

\* C6 as claimed: every scheduled delay that is not a server hint is at
\* least the delay scheduled before it, and at most the 32000 ms cap.
C6_MonotoneUnlessHinted ==
    \A c \in Running : \A i \in 1..Len(sched[c]) :
        ~sched[c][i].hinted =>
            /\ sched[c][i].ms <= DEFAULT_MAX_RETRY_INTERVAL_MS
            /\ (i > 1 => sched[c][i].ms >= sched[c][i - 1].ms)

\* C6 amended: every scheduled delay that is not a server hint is at least
\* every earlier delay of the call that was not a server hint, and at most
\* the 32000 ms cap; a server hint is used verbatim, even above the cap.
C6_MonotoneAmongUnhinted ==
    \A c \in Running : \A i \in 1..Len(sched[c]) :
        IF sched[c][i].hinted
        THEN sched[c][i].ms = hist[c][i].err.msg.n * 1000
        ELSE /\ sched[c][i].ms <= DEFAULT_MAX_RETRY_INTERVAL_MS
             /\ \A j \in 1..(i - 1) :
                    ~sched[c][j].hinted => sched[c][i].ms >= sched[c][j].ms

C6_Witness ==
    \E c \in Running : \E i \in 2..Len(sched[c]) :
        /\ sched[c][i - 1].hinted
        /\ sched[c][i - 1].ms > DEFAULT_MAX_RETRY_INTERVAL_MS
        /\ ~sched[c][i].hinted
        /\ sched[c][i].ms < sched[c][i - 1].ms
        /\ \E j \in 1..(i - 2) : ~sched[c][j].hinted

TerminalClasses == {"http_error", "transport"}

\* C7: a terminal outcome (an HTTP error that is not a rate limit, or a
\* transport failure that is not a timeout) ends the call at once with that
\* error: it is the last outcome of the call, no sleep and no send follow
\* it, and on the first attempt the call ends with zero retries.
C7_TerminalReturnsAtOnce ==
    \A c \in Running : \A i \in 1..Len(hist[c]) :
        hist[c][i].class \in TerminalClasses =>
            /\ i = Len(hist[c])
            /\ pc[c] = "done"
            /\ result[c] = Err(hist[c][i].err)
            /\ sends[c] = i
            /\ sleeps[c] = i - 1
            /\ Len(sched[c]) = i - 1
            /\ attempts[c] = i - 1

C7_Witness ==
    \E c \in Running :
        /\ Len(hist[c]) = 1
        /\ hist[c][1].class = "transport"
        /\ pc[c] = "done"
        /\ result[c] = Err(RequestFailedError)
        /\ sends[c] = 1 /\ sleeps[c] = 0 /\ attempts[c] = 0

\* a get_token call of c completes without a request being sent
TokenFailure(c) ==
    /\ pc[c] = "token"
    /\ fetches'[c] = fetches[c] + 1
    /\ sends'[c] = sends[c]

\* C8: a token fetch failure on any attempt makes the call return the
\* authentication error at once: no request is sent in that attempt, no
\* sleep or later attempt follows, and the attempt counter is not incremented.
C8_TokenFailureShortCircuits ==
    /\ [][\A c \in Running :
            TokenFailure(c) =>
                /\ pc'[c] = "done"
                /\ result'[c] = Err(TokenError)
                /\ attempts'[c] = attempts[c]
                /\ sleeps'[c] = sleeps[c]]_vars
    /\ [](\A c \in Running :
            result[c] = Err(TokenError) =>
                /\ pc[c] = "done"
                /\ fetches[c] = sends[c] + 1
                /\ sleeps[c] = sends[c]
                /\ attempts[c] = sends[c])

C8_Witness ==
    \E c \in Running :
        /\ result[c] = Err(TokenError)
        /\ pc[c] = "done"
        /\ attempts[c] = 2
        /\ fetches[c] = 3 /\ sends[c] = 2

\* C9: every send is preceded by its own token fetch, made in the same loop
\* iteration after the preceding sleep, and uses the token of that fetch; no
\* token is used by two sends.
C9_FreshTokenPerSend ==
    \A c \in Running :
        /\ Len(used[c]) = sends[c]
        /\ \A i \in 1..Len(used[c]) :
               /\ used[c][i].fetch = i
               /\ used[c][i].sleeps = i - 1
        /\ \A i, j \in 1..Len(used[c]) : i # j => used[c][i] # used[c][j]
        /\ (pc[c] = "send" => auth_token[c] = Last(used[c]))

C9_Witness ==
    \E c \in Running :
        /\ sends[c] = DEFAULT_MAX_RETRIES + 1
        /\ pc[c] = "send"
        /\ auth_token[c].fetch = DEFAULT_MAX_RETRIES + 1

\* The retry state of a call as a function of its own outcomes h.
RECURSIVE DelayAfter(_)
DelayAfter(h) ==
    IF h = <<>> THEN DEFAULT_INITIAL_RETRY_INTERVAL_MS
    ELSE LET before == DelayAfter(SubSeq(h, 1, Len(h) - 1))
             o == Last(h)
         IN  CASE o.class = "timeout" -> TimeoutDelay(before).next
               [] o.class = "rate_limit" ->
                      RateLimitDelay(RetryAfterOf[o.err.msg], before).next
               [] OTHER -> before

RECURSIVE ScheduleAfter(_)
ScheduleAfter(h) ==
    IF h = <<>> THEN <<>>
    ELSE LET front == SubSeq(h, 1, Len(h) - 1)
             o == Last(h)
             d == IF o.class = "timeout"
                  THEN TimeoutDelay(DelayAfter(front))
                  ELSE RateLimitDelay(RetryAfterOf[o.err.msg], DelayAfter(front))
         IN  IF o.class \in RetryableClasses
             THEN Append(ScheduleAfter(front), [ms |-> d.ms, hinted |-> d.hinted])
             ELSE ScheduleAfter(front)

RECURSIVE LastErrorAfter(_)
LastErrorAfter(h) ==
    IF h = <<>> THEN NoError
    ELSE IF Last(h).class = "rate_limit" THEN Last(h).err
         ELSE LastErrorAfter(SubSeq(h, 1, Len(h) - 1))

\* the result of a call that returned after the outcomes h without a token
\* failure
ResultAfter(h) ==
    CASE h = <<>> -> Err(TokenError)
      [] Last(h).class = "ok" -> Ok(Len(h))
      [] Last(h).class \in TerminalClasses -> Err(Last(h).err)
      [] OTHER -> ExhaustedResult(LastErrorAfter(h))

Locals(c) == <<pc[c], attempts[c], last_error[c], current_delay[c],
               auth_token[c], result[c], hist[c], sched[c], sends[c],
               fetches[c], sleeps[c], used[c], cancelled[c], base_url[c],
               headers[c], completion[c], parsed[c]>>

\* C10: two concurrent calls share no retry state: a step of one call
\* changes nothing of the other call, and the attempt counter, current
\* delay, last error, delay schedule and result of each call are determined
\* by that call's own sequence of outcomes.
C10_CallsIndependent ==
    /\ [][\A c, d \in Running :
            (c # d /\ pc'[c] # pc[c]) => Locals(d)' = Locals(d)]_vars
    /\ [](\A c \in Running :
            /\ attempts[c] = NumRetryable(hist[c])
            /\ current_delay[c] = DelayAfter(hist[c])
            /\ last_error[c] = LastErrorAfter(hist[c])
            /\ sched[c] = ScheduleAfter(hist[c])
            /\ (pc[c] = "done" =>
                   result[c] \in {Err(TokenError), ResultAfter(hist[c])}))

C10_Witness ==
    /\ Running = Calls
    /\ \A c \in Running : pc[c] = "sleep" /\ Len(hist[c]) >= 3
    /\ \E c, d \in Running :
          /\ current_delay[c] # current_delay[d]
          /\ attempts[c] # attempts[d]
          /\ last_error[c] # last_error[d]

\* C11: once the caller has cancelled a call that was suspended (waiting for
\* the token, for the response, or in a backoff sleep), the call performs no
\* further token fetch, send or sleep and returns nothing.
C11_NothingAfterCancel ==
    [][\A c \in Running :
          cancelled[c] =>
              /\ fetches'[c] = fetches[c]
              /\ sends'[c] = sends[c]
              /\ sleeps'[c] = sleeps[c]
              /\ sched'[c] = sched[c]
              /\ hist'[c] = hist[c]
              /\ pc'[c] = pc[c]
              /\ result'[c] = result[c]]_vars

\* cancelled in the middle of a backoff sleep
C11_Witness ==
    \E c \in Running :
        /\ cancelled[c]
        /\ pc[c] = "dropped"
        /\ Len(sched[c]) = 2
        /\ sleeps[c] = 1
        /\ sends[c] = 2

\* the path without its trailing slashes: the longest prefix that does not
\* end in "/"
StripSlashes(q) ==
    LET keep == {i \in 1..Len(q) : q[i] # "/"}
        n == IF keep = {} THEN 0 ELSE CHOOSE i \in keep : \A j \in keep : j <= i
    IN  SubSeq(q, 1, n)

\* C12: the URL built by post is the same whether or not the configured
\* endpoint b ends with extra trailing slashes: build(b + "/") = build(b) =
\* b's origin and path without trailing slashes, followed by
\* /openai/deployments/d/chat/completions?api-version=v.
C12_TrailingSlashIrrelevant ==
    \A c \in Running :
        base_url[c].ok =>
            LET b == config.endpoint
                d == config.deployment_name
                v == config.api_version
            IN  /\ UrlParse(b \o <<"/">>).ok
                /\ base_url[c] = BuildUrl(UrlParse(b \o <<"/">>), d, v)
                /\ base_url[c] = BuildUrl(UrlParse(b \o <<"/", "/">>), d, v)
                /\ UrlText(base_url[c]) =
                       UrlParse(b).origin \o StripSlashes(UrlParse(b).path)
                       \o OpenAiPrefix \o d \o ChatCompletions
                       \o <<"?">> \o ApiVersionKey \o v

C12_Witness ==
    \E c \in Running :
        /\ base_url[c].ok
        /\ config.endpoint = SchemeText \o HostText \o <<"/", "a", "/">>
        /\ base_url[c].path =
               <<"/", "a">> \o OpenAiPrefix \o config.deployment_name
               \o ChatCompletions

\* C13: every request sent carries exactly one authentication header, chosen
\* by the credential type of the provider: api-key: <token> for ApiKey,
\* Authorization: Bearer <token> for DefaultCredential, with the token
\* fetched for that attempt.
C13_OneAuthHeaderPerRequest ==
    \A c \in Running :
        /\ Len(headers[c]) = sends[c]
        /\ \A i \in 1..Len(headers[c]) :
               /\ Cardinality(headers[c][i]) = 1
               /\ \A h \in headers[c][i] :
                      /\ h.token = used[c][i]
                      /\ (config.credential = "ApiKey" =>
                              h.name = "api-key" /\ h.prefix = "")
                      /\ (config.credential = "DefaultCredential" =>
                              h.name = "Authorization" /\ h.prefix = "Bearer ")

C13_Witness ==
    \E c \in Running :
        /\ config.credential = "ApiKey"
        /\ sends[c] = 3
        /\ \A i \in 1..3 : \E h \in headers[c][i] : h.name = "api-key"

\* C14: when the response parses into a message and get_usage fails with
\* UsageError, complete returns Ok with the parsed message and the default
\* (zero-valued) usage record.
C14_UsageErrorDoesNotFail ==
    \A c \in Running :
        (parsed[c].message = "ok" /\ parsed[c].usage = "usage_error") =>
            /\ result[c].status = "Ok"
            /\ completion[c] = CompleteOk(result[c].body, "default")

C14_Witness ==
    \E c \in Running :
        /\ parsed[c] = [message |-> "ok", usage |-> "usage_error"]
        /\ completion[c].status = "Ok"
        /\ completion[c].usage = "default"
        /\ completion[c].message = 2

\* the transitions of the state machine Start -> Attempting -> (Success |
\* RetryWait -> Attempting | Terminal); a call may also be dropped
ClaimedTransitions ==
    {<<"start", "token">>, <<"start", "done">>, <<"token", "send">>,
     <<"token", "done">>, <<"send", "done">>, <<"send", "sleep">>,
     <<"sleep", "token">>,
     <<"token", "dropped">>, <<"send", "dropped">>, <<"sleep", "dropped">>}

\* C15 as claimed: a call only takes the transitions of the state machine;
\* every backoff wait is followed by a new attempt, and the call never
\* returns directly out of a wait.
C15_WaitThenAttempt ==
    [][\A c \in Running :
          pc'[c] # pc[c] => <<pc[c], pc'[c]>> \in ClaimedTransitions]_vars

\* C16: a successful response on any attempt makes post return Ok with the
\* body of that response at once, whatever failures were recorded before: it
\* is the last outcome, no sleep or send follows, no error is returned.
C16_SuccessReturnsAtOnce ==
    \A c \in Running : \A i \in 1..Len(hist[c]) :
        hist[c][i].class = "ok" =>
            /\ i = Len(hist[c])
            /\ pc[c] = "done"
            /\ result[c] = Ok(i)
            /\ sends[c] = i
            /\ sleeps[c] = i - 1
            /\ Len(sched[c]) = i - 1

C16_Witness ==
    \E c \in Running :
        /\ Len(hist[c]) = 3
        /\ hist[c][3].class = "ok"
        /\ last_error[c] # NoError
        /\ result[c] = Ok(3)

\* C17: every call that is not dropped and whose token fetches, sends and
\* sleeps complete returns, after at most 6 sends and at most 6 sleeps.
C17_CallTerminates ==
    /\ [][\A c \in Running :
            /\ sends'[c] <= DEFAULT_MAX_RETRIES + 1
            /\ sleeps'[c] <= DEFAULT_MAX_RETRIES + 1]_vars
    /\ <>(\A c \in Running : pc[c] = "done")

C17_Witness ==
    \E c \in Running :
        /\ pc[c] = "done"
        /\ sleeps[c] = DEFAULT_MAX_RETRIES + 1
        /\ sends[c] = DEFAULT_MAX_RETRIES + 1
        /\ fetches[c] = DEFAULT_MAX_RETRIES + 1

RECURSIVE Pow2(_)
Pow2(k) == IF k = 0 THEN 1 ELSE 2 * Pow2(k - 1)

\* C18: attempts is the number of retryable failures seen so far (hinted or
\* not), and current_delay is 1000 * 2^k ms, k the number of failures whose
\* delay did not come from a server hint; current_delay is not clamped.
C18_CountersAtLoopHead ==
    \A c \in Running :
        /\ attempts[c] = NumRetryable(hist[c])
        /\ attempts[c] = Len(sched[c])
        /\ current_delay[c] =
               DEFAULT_INITIAL_RETRY_INTERVAL_MS * Pow2(Len(Unhinted(sched[c])))

C18_Witness ==
    \E c \in Running :
        /\ pc[c] = "token"
        /\ attempts[c] = 5
        /\ Len(Unhinted(sched[c])) = 3
        /\ current_delay[c] = 8 * DEFAULT_INITIAL_RETRY_INTERVAL_MS

====
